---- MODULE Spec2Model ----
(***************************************************************************)
(* A model of flask-unchained's utility functions, its SQLAlchemy bundle's *)
(* CLI commands and its ModelManager.                                      *)
(*                                                                         *)
(* Python strings are sequences of one-character strings, so that lower(), *)
(* upper(), rstrip() and the `in` substring test are computed and not      *)
(* assumed.  Each subsystem has its own variables and its own              *)
(* specification (SpecEnv, SpecCli, ...); a specification keeps the        *)
(* variables of the other subsystems at their idle values.                 *)
(***************************************************************************)
EXTENDS Integers, Sequences, FiniteSets, TLC

VARIABLES
    \* ---- get_boolean_env (utils.py) ----
    environ,        \* os.environ: a function from the names that are set to their values
    env_name,       \* argument `name`
    env_default,    \* argument `default`, a Python literal
    env_pc,         \* "call" before the call, "done" after it
    env_result,     \* the returned bool
    \* ---- CLI commands (commands.py) ----
    cmd,            \* the command invoked: "drop", "reset" or "import-fixtures"
    flag,           \* the value of the --drop / --reset confirmation flag
    pc,             \* the command's position
    tables,         \* the model tables present in the database
    alembic_version,\* whether the alembic_version table is present
    migrations,     \* the model tables the migration scripts create
    out,            \* the lines echoed by click.echo, in order
    exit_msg,       \* the argument of exit(), "" while not exited
    raised,         \* the exception that ended the command, "" if none
    fixtures_dir,   \* current_app.config.get('PY_YAML_FIXTURES_DIR')
    fixture_ids,    \* the identifier keys of the fixtures in the fixtures dir
    loader_built,   \* whether the factory and the FixturesLoader were constructed
    session,        \* the fixtures added to the database session
    created,        \* the dict returned by loader.create_all(), as a sequence of keys
    tables0,        \* history: tables when the command started
    alembic0,       \* history: alembic_version when the command started
    session0,       \* history: session when the command started
    \* ---- ModelManager (model_manager.py) ----
    model_cls,      \* the model class the manager is for
    instances,      \* the model instances constructed so far: id -> column values
    mm_session,     \* the instances in the database session
    mm_committed,   \* the instances whose row is committed
    mm_dirty,       \* the instances of the session with uncommitted state
    mm_ret,         \* the last ModelManager call: its arguments and what it returned
    \* ---- deep_getattr (utils.py) ----
    class_dicts,    \* the __dict__ of each existing class
    dg_clsdict,     \* argument `clsdict`
    dg_bases,       \* argument `bases`
    dg_name,        \* argument `name`
    dg_default,     \* argument `default`
    dg_pc,          \* "call" before the call, "done" after it
    dg_result,      \* what the call returned or raised
    \* ---- safe_import_module (utils.py) ----
    im_exists,      \* the modules the import system finds
    im_imports,     \* module -> the module its code imports, NoModule if none
    im_module_name, \* argument `module_name`
    im_pc,          \* "call" before the call, "done" after it
    im_result,      \* "module", "None", or "ImportError" when the call raised
    \* ---- ConfigProperty, ConfigPropertyMeta (utils.py) ----
    cp_key,         \* descriptor -> its key
    cp_declared,    \* history: descriptor -> the key its constructor was given
    cp_config,      \* current_app.config
    cp_n,           \* the number of classes created with ConfigPropertyMeta
    cp_class,       \* the class created last: its name, prefix and properties
    cp_key_before,  \* history: cp_key when the class created last was created
    cp_read,        \* the last read of a property: the descriptor and the value
    \* ---- OptionalMetaclass, OptionalClass (utils.py) ----
    opt_optional_class, \* OptionalMetaclass.__optional_class: a class name, or None
    opt_dict,       \* the names in the __dict__ of the optional class
    opt_items,      \* the items stored on the optional class
    opt_n,          \* the number of operations performed
    opt_last        \* the last operation: its argument, its result, what it raised

envVars == <<environ, env_name, env_default, env_pc, env_result>>
cliVars == <<cmd, flag, pc, tables, alembic_version, migrations, out, exit_msg,
             raised, fixtures_dir, fixture_ids, loader_built, session, created,
             tables0, alembic0, session0>>

mmVars == <<model_cls, instances, mm_session, mm_committed, mm_dirty, mm_ret>>
dgVars == <<class_dicts, dg_clsdict, dg_bases, dg_name, dg_default, dg_pc, dg_result>>
imVars == <<im_exists, im_imports, im_module_name, im_pc, im_result>>
cpVars == <<cp_key, cp_declared, cp_config, cp_n, cp_class, cp_key_before, cp_read>>
optVars == <<opt_optional_class, opt_dict, opt_items, opt_n, opt_last>>

\* the variables of the other subsystems, which a subsystem's steps leave alone
notEnv == <<cliVars, mmVars, dgVars, imVars, cpVars, optVars>>
notCli == <<envVars, mmVars, dgVars, imVars, cpVars, optVars>>
notMm == <<envVars, cliVars, dgVars, imVars, cpVars, optVars>>
notDg == <<envVars, cliVars, mmVars, imVars, cpVars, optVars>>
notIm == <<envVars, cliVars, mmVars, dgVars, cpVars, optVars>>
notCp == <<envVars, cliVars, mmVars, dgVars, imVars, optVars>>
notOpt == <<envVars, cliVars, mmVars, dgVars, imVars, cpVars>>

----------------------------------------------------------------------------
(* Python strings *)

\* str(...) of a short literal, written character by character.
S_true == <<"t", "r", "u", "e">>
S_false == <<"f", "a", "l", "s", "e">>
S_yes == <<"y", "e", "s">>
S_y == <<"y">>
S_1 == <<"1">>

\* str.lower() / str.upper() on one character of the alphabet used here.
LowerChar(c) ==
    CASE c = "T" -> "t" [] c = "R" -> "r" [] c = "U" -> "u" [] c = "E" -> "e"
      [] c = "Y" -> "y" [] c = "S" -> "s" [] c = "N" -> "n" [] c = "O" -> "o"
      [] c = "F" -> "f" [] c = "A" -> "a" [] c = "L" -> "l" [] c = "X" -> "x"
      [] c = "P" -> "p" [] c = "C" -> "c" [] c = "K" -> "k"
      [] OTHER -> c

UpperChar(c) ==
    CASE c = "t" -> "T" [] c = "r" -> "R" [] c = "u" -> "U" [] c = "e" -> "E"
      [] c = "y" -> "Y" [] c = "s" -> "S" [] c = "n" -> "N" [] c = "o" -> "O"
      [] c = "f" -> "F" [] c = "a" -> "A" [] c = "l" -> "L" [] c = "x" -> "X"
      [] c = "p" -> "P" [] c = "c" -> "C" [] c = "k" -> "K"
      [] OTHER -> c

lower(s) == [i \in 1..Len(s) |-> LowerChar(s[i])]
upper(s) == [i \in 1..Len(s) |-> UpperChar(s[i])]

RECURSIVE rstrip(_, _)
\* s.rstrip(c): s without its trailing run of the character c.
rstrip(s, c) ==
    IF Len(s) > 0 /\ s[Len(s)] = c THEN rstrip(SubSeq(s, 1, Len(s) - 1), c) ELSE s

\* `a in b` for Python strings: a is a contiguous substring of b.
IsSubstring(a, b) ==
    \E i \in 0..(Len(b) - Len(a)) : SubSeq(b, i + 1, i + Len(a)) = a

----------------------------------------------------------------------------
(* utils.get_boolean_env *)

EnvNames == {"FLASK_DEBUG", "OTHER"}

\* Values an environment variable may hold.
EnvValues ==
    { S_true, <<"T", "R", "U", "E">>, <<"T", "r", "u", "e">>,
      S_yes, <<"Y", "E", "S">>, S_y, <<"Y">>, S_1,
      <<>>, <<"0">>, <<"n", "o">>, S_false, <<"o", "n">>,
      <<" ", "t", "r", "u", "e">>, <<"1", "1">>, <<"t">> }

\* Python literals passed as `default`.
EnvDefaults == {"True", "False", "None", "0", "1", "''", "'no'"}

\* bool(x) of a literal of EnvDefaults.
Truthy(x) == x \in {"True", "1", "'no'"}

\* the set literal of line 162
TrueWords == {S_true, S_yes, S_y, S_1}

\* os.getenv(name, default)
getenv(name, default) == IF name \in DOMAIN environ THEN environ[name] ELSE default

\* faulty variant: the value is not lowercased
get_boolean_env_nolower(name, default) ==
    LET d == IF Truthy(default) THEN S_true ELSE S_false
    IN  getenv(name, d) \in TrueWords

get_boolean_env(name, default) ==
    LET d == IF Truthy(default) THEN S_true ELSE S_false
    IN  lower(getenv(name, d)) \in TrueWords

EnvIdle ==
    /\ environ = <<>>
    /\ env_name = "FLASK_DEBUG"
    /\ env_default = "False"
    /\ env_pc = "idle"
    /\ env_result = FALSE

EnvInit ==
    /\ \E names \in SUBSET {"FLASK_DEBUG"} : environ \in [names -> EnvValues]
    /\ env_name \in EnvNames
    /\ env_default \in EnvDefaults
    /\ env_pc = "call"
    /\ env_result = FALSE

CallGetBooleanEnv ==
    /\ env_pc = "call"
    /\ env_result' = get_boolean_env(env_name, env_default)
    /\ env_pc' = "done"
    /\ UNCHANGED <<environ, env_name, env_default, notEnv>>

----------------------------------------------------------------------------
(* bundles/sqlalchemy/commands.py *)

\* the tables of the models known to db_ext
ModelTables == {"user", "role"}

\* Values of the PY_YAML_FIXTURES_DIR config key; "None" is the key being unset.
FixtureDirs == {"None", "", "/fixtures", "/fixtures.yaml", "/nowhere"}

\* the file system: os.path.exists is true of a directory and of a regular file
PathKind(p) ==
    CASE p = "/fixtures" -> "dir"
      [] p = "/fixtures.yaml" -> "file"
      [] OTHER -> "missing"

exists(p) == PathKind(p) # "missing"

\* `not fixtures_dir`: None and the empty string are falsy
FalsyDir(p) == p \in {"None", ""}

\* the identifier keys of the fixture files, in the order create_all returns them
FixtureSeqs == {<<>>, <<"User.a">>, <<"User.a", "Role.b">>, <<"Role.b", "User.a">>}

Line(msg, arg) == [msg |-> msg, arg |-> arg]

echo(msg) == out' = Append(out, Line(msg, ""))

CliIdle ==
    /\ cmd = "none" /\ flag = FALSE /\ pc = "idle"
    /\ tables = {} /\ alembic_version = FALSE /\ migrations = {}
    /\ out = <<>> /\ exit_msg = "" /\ raised = ""
    /\ fixtures_dir = "None" /\ fixture_ids = <<>> /\ loader_built = FALSE
    /\ session = {} /\ created = <<>>
    /\ tables0 = {} /\ alembic0 = FALSE /\ session0 = {}

CliInit ==
    /\ cmd \in {"drop", "reset", "import-fixtures"}
    /\ flag \in BOOLEAN
    /\ pc = "start"
    /\ tables \in SUBSET ModelTables
    /\ alembic_version \in BOOLEAN
    /\ migrations \in SUBSET ModelTables
    /\ out = <<>> /\ exit_msg = "" /\ raised = ""
    /\ fixtures_dir \in FixtureDirs
    /\ fixture_ids \in FixtureSeqs
    /\ loader_built = FALSE
    /\ session \in {{}, {"User.z"}} /\ created = <<>>
    /\ tables0 = tables /\ alembic0 = alembic_version /\ session0 = session

\* what every step of a command leaves alone: its inputs, the history variables
\* and the other subsystems
CliFrame == <<cmd, flag, migrations, fixtures_dir, fixture_ids, tables0, alembic0,
              session0, notCli>>

\* lines 26-27: if not drop: exit('Cancelled.')
drop_command_cancel ==
    /\ cmd = "drop" /\ pc = "start" /\ ~flag
    /\ exit_msg' = "Cancelled."
    /\ pc' = "exited"
    /\ UNCHANGED <<CliFrame, tables, alembic_version, out, raised, loader_built,
                   session, created>>

\* line 29: click.echo('Dropping DB tables.')
drop_command_echo_dropping ==
    /\ cmd = "drop" /\ pc = "start" /\ flag
    /\ echo("Dropping DB tables.")
    /\ pc' = "drop_all"
    /\ UNCHANGED <<CliFrame, tables, alembic_version, exit_msg, raised,
                   loader_built, session, created>>

\* line 32: click.echo('Done.')
drop_command_echo_done ==
    /\ cmd = "drop" /\ pc = "after_drop_all"
    /\ echo("Done.")
    /\ pc' = "done"
    /\ UNCHANGED <<CliFrame, tables, alembic_version, exit_msg, raised,
                   loader_built, session, created>>

drop_command ==
    \/ drop_command_cancel
    \/ drop_command_echo_dropping
    \/ drop_command_echo_done

\* faulty variant: drop_all that drops no model table
drop_all_tables_keep ==
    /\ pc = "drop_all"
    /\ tables' = tables /\ pc' = "drop_alembic_version" /\ raised' = raised
    /\ UNCHANGED <<CliFrame, alembic_version, out, exit_msg, loader_built,
                   session, created>>

\* line 36: db_ext.drop_all() drops every model table, or raises
drop_all_tables ==
    /\ pc = "drop_all"
    /\ \/ tables' = {} /\ pc' = "drop_alembic_version" /\ raised' = raised
       \/ tables' = tables /\ pc' = "raised" /\ raised' = "OperationalError"
    /\ UNCHANGED <<CliFrame, alembic_version, out, exit_msg, loader_built,
                   session, created>>

\* line 37: DROP TABLE IF EXISTS alembic_version; then return to the caller
drop_all_alembic_version ==
    /\ pc = "drop_alembic_version"
    /\ \/ alembic_version' = FALSE /\ pc' = "after_drop_all" /\ raised' = raised
       \/ alembic_version' = alembic_version /\ pc' = "raised"
          /\ raised' = "OperationalError"
    /\ UNCHANGED <<CliFrame, tables, out, exit_msg, loader_built, session, created>>

drop_all ==
    \/ drop_all_tables
    \/ drop_all_alembic_version

\* faulty variant: the cancelled reset carries on instead of exiting
reset_command_cancel_fallthrough ==
    /\ cmd = "reset" /\ pc = "start" /\ ~flag
    /\ exit_msg' = exit_msg
    /\ pc' = "drop_all"
    /\ UNCHANGED <<CliFrame, tables, alembic_version, out, raised, loader_built,
                   session, created>>

\* lines 45-46: if not reset: exit('Cancelled.')
reset_command_cancel ==
    /\ cmd = "reset" /\ pc = "start" /\ ~flag
    /\ exit_msg' = "Cancelled."
    /\ pc' = "exited"
    /\ UNCHANGED <<CliFrame, tables, alembic_version, out, raised, loader_built,
                   session, created>>

\* line 48: click.echo('Dropping DB tables.')
reset_command_echo_dropping ==
    /\ cmd = "reset" /\ pc = "start" /\ flag
    /\ echo("Dropping DB tables.")
    /\ pc' = "drop_all"
    /\ UNCHANGED <<CliFrame, tables, alembic_version, exit_msg, raised,
                   loader_built, session, created>>

\* line 51: click.echo('Running DB migrations.')
reset_command_echo_running ==
    /\ cmd = "reset" /\ pc = "after_drop_all"
    /\ echo("Running DB migrations.")
    /\ pc' = "upgrade"
    /\ UNCHANGED <<CliFrame, tables, alembic_version, exit_msg, raised,
                   loader_built, session, created>>

\* line 52: alembic.upgrade(config, 'head') runs the migration scripts, or raises
reset_command_upgrade ==
    /\ cmd = "reset" /\ pc = "upgrade"
    /\ \/ /\ tables' = tables \cup migrations
          /\ alembic_version' = TRUE
          /\ pc' = "after_upgrade" /\ raised' = raised
       \/ /\ UNCHANGED <<tables, alembic_version>>
          /\ pc' = "raised" /\ raised' = "CommandError"
    /\ UNCHANGED <<CliFrame, out, exit_msg, loader_built, session, created>>

\* line 54: click.echo('Done.')
reset_command_echo_done ==
    /\ cmd = "reset" /\ pc = "after_upgrade"
    /\ echo("Done.")
    /\ pc' = "done"
    /\ UNCHANGED <<CliFrame, tables, alembic_version, exit_msg, raised,
                   loader_built, session, created>>

reset_command ==
    \/ reset_command_cancel
    \/ reset_command_echo_dropping
    \/ reset_command_echo_running
    \/ reset_command_upgrade
    \/ reset_command_echo_done

\* faulty variant: the check with `and` for `or`
import_fixtures_check_and ==
    /\ cmd = "import-fixtures" /\ pc = "start"
    /\ IF FalsyDir(fixtures_dir) /\ ~exists(fixtures_dir)
       THEN pc' = "raised" /\ raised' = "NotADirectoryError"
       ELSE pc' = "build_loader" /\ raised' = raised
    /\ UNCHANGED <<CliFrame, tables, alembic_version, out, exit_msg, loader_built,
                   session, created>>

\* lines 59-63: the check of the fixtures directory
import_fixtures_check ==
    /\ cmd = "import-fixtures" /\ pc = "start"
    /\ IF FalsyDir(fixtures_dir) \/ ~exists(fixtures_dir)
       THEN pc' = "raised" /\ raised' = "NotADirectoryError"
       ELSE pc' = "build_loader" /\ raised' = raised
    /\ UNCHANGED <<CliFrame, tables, alembic_version, out, exit_msg, loader_built,
                   session, created>>

\* lines 65-69: the factory and the loader are built, the directory is announced
import_fixtures_build_loader ==
    /\ cmd = "import-fixtures" /\ pc = "build_loader"
    /\ loader_built' = TRUE
    /\ out' = Append(out, Line("Loading fixtures from", fixtures_dir))
    /\ pc' = "create_all"
    /\ UNCHANGED <<CliFrame, tables, alembic_version, exit_msg, raised, session,
                   created>>

\* line 70: loader.create_all() adds a model per fixture to the session.  On a
\* path that is a regular file the loader finds no fixture file or raises.
import_fixtures_create_all ==
    /\ cmd = "import-fixtures" /\ pc = "create_all"
    /\ \/ /\ PathKind(fixtures_dir) = "dir"
          /\ created' = fixture_ids
          /\ session' = session \cup {fixture_ids[i] : i \in 1..Len(fixture_ids)}
          /\ pc' = "echo_created" /\ raised' = raised
       \/ /\ PathKind(fixtures_dir) = "file"
          /\ created' = <<>> /\ session' = session
          /\ pc' = "echo_created" /\ raised' = raised
       \/ /\ PathKind(fixtures_dir) = "file"
          /\ UNCHANGED <<created, session>>
          /\ pc' = "raised" /\ raised' = "NotADirectoryError"
    /\ UNCHANGED <<CliFrame, tables, alembic_version, out, exit_msg, loader_built>>

\* the number of 'Created' lines echoed so far
NCreatedLines == Cardinality({i \in 1..Len(out) : out[i].msg = "Created"})

\* lines 70-71: one 'Created' line per item of the dict, in its order
import_fixtures_echo_created ==
    /\ cmd = "import-fixtures" /\ pc = "echo_created"
    /\ NCreatedLines < Len(created)
    /\ out' = Append(out, Line("Created", created[NCreatedLines + 1]))
    /\ UNCHANGED <<CliFrame, pc, tables, alembic_version, exit_msg, raised,
                   loader_built, session, created>>

\* line 72: click.echo('Finished adding fixtures')
import_fixtures_echo_finished ==
    /\ cmd = "import-fixtures" /\ pc = "echo_created"
    /\ NCreatedLines = Len(created)
    /\ echo("Finished adding fixtures")
    /\ pc' = "done"
    /\ UNCHANGED <<CliFrame, tables, alembic_version, exit_msg, raised,
                   loader_built, session, created>>

import_fixtures ==
    \/ import_fixtures_check
    \/ import_fixtures_build_loader
    \/ import_fixtures_create_all
    \/ import_fixtures_echo_created
    \/ import_fixtures_echo_finished

----------------------------------------------------------------------------
(* bundles/sqlalchemy/services/model_manager.py *)

\* the most model instances a run constructs
MaxInstances == 2

\* the columns of the model
Attrs == {"name", "active"}

\* the value a keyword argument gives a column (Python literals)
ColumnValues(a) == {"1"}

\* the values of a column; a column no keyword argument sets is None, and the
\* instance the application starts with may hold 0 in `active`
AttrValues(a) == IF a = "name" THEN {"None", "1"} ELSE {"None", "0", "1"}

\* the column values of an instance
Rows == {r \in [Attrs -> {"None", "0", "1"}] : \A a \in Attrs : r[a] \in AttrValues(a)}

\* The model class a manager is for.  "Model" defines neither __bool__ nor
\* __len__, so every instance is truthy; "FlagModel" defines __bool__ as
\* bool(self.active).
ModelClasses == {"Model", "FlagModel"}

\* keyword arguments: a value for some of the columns
KwargsSets ==
    {k \in UNION {[names -> {"1"}] : names \in SUBSET Attrs} :
        \A a \in DOMAIN k : k[a] \in ColumnValues(a)}

\* what operations return for `no instance`: Python's None
NoInstance == 0

\* bool(instance), and bool(None) = False
InstanceTruthy(i) ==
    IF i = NoInstance THEN FALSE
    ELSE IF model_cls = "FlagModel" THEN instances[i]["active"] = "1"
    ELSE TRUE

\* self.model(**kwargs): the columns named are set, the others are None
NewModel(kwargs) ==
    [a \in Attrs |-> IF a \in DOMAIN kwargs THEN kwargs[a] ELSE "None"]

\* setattr(instance, attr, value) for every item of kwargs
SetAttrs(obj, kwargs) ==
    [a \in Attrs |-> IF a \in DOMAIN kwargs THEN kwargs[a] ELSE obj[a]]

\* the instances self.q.filter_by(**kwargs) selects: the query autoflushes, so
\* it sees every instance of the session with its current column values
Matching(kwargs) ==
    {i \in mm_session : \A a \in DOMAIN kwargs : instances[i][a] = kwargs[a]}

\* self.q.get_by(**kwargs): one of the matching instances, None if there is none
get_by(kwargs) == IF Matching(kwargs) = {} THEN {NoInstance} ELSE Matching(kwargs)

Ret(op, commit, kwargs, instance, was_created, found) ==
    [op |-> op, commit |-> commit, kwargs |-> kwargs, instance |-> instance,
     created |-> was_created, found |-> found]

\* SessionManager.save(instance, commit): the instance is added to the session,
\* and the session is committed when commit is true.  `changed` tells whether
\* the instance has state the database does not hold.
save(i, commit, changed) ==
    /\ mm_session' = mm_session \cup {i}
    /\ IF commit
       THEN /\ mm_committed' = mm_session'
            /\ mm_dirty' = {}
       ELSE /\ mm_committed' = mm_committed
            /\ mm_dirty' = mm_dirty \cup (IF changed THEN {i} ELSE {})

\* faulty variant: create that commits whatever `commit` says
create_body_commits(commit, kwargs) ==
    /\ Len(instances) < MaxInstances
    /\ instances' = Append(instances, NewModel(kwargs))
    /\ save(Len(instances) + 1, TRUE, TRUE)

\* lines 54-56: instance = self.model(**kwargs); self.save(instance, commit=commit)
create_body(commit, kwargs) ==
    /\ Len(instances) < MaxInstances
    /\ instances' = Append(instances, NewModel(kwargs))
    /\ save(Len(instances) + 1, commit, TRUE)

MmIdle ==
    /\ model_cls = "Model" /\ instances = <<>> /\ mm_session = {}
    /\ mm_committed = {} /\ mm_dirty = {}
    /\ mm_ret = Ret("idle", FALSE, <<>>, NoInstance, FALSE, NoInstance)

\* A manager of either model class; the application may already hold one
\* instance, transient (built by the caller) or persistent (loaded earlier).
MmInit ==
    /\ model_cls \in ModelClasses
    /\ \/ instances = <<>> /\ mm_session = {} /\ mm_committed = {}
       \/ /\ \E obj \in Rows : instances = <<obj>>
          /\ \/ mm_session = {} /\ mm_committed = {}
             \/ mm_session = {1} /\ mm_committed = {1}
    /\ mm_dirty = {}
    /\ mm_ret = Ret("none", FALSE, <<>>, NoInstance, FALSE, NoInstance)

\* ModelManager.create(commit, **kwargs)
create ==
    \E commit \in BOOLEAN, kwargs \in KwargsSets :
        /\ create_body(commit, kwargs)
        /\ mm_ret' = Ret("create", commit, kwargs, Len(instances) + 1, TRUE, NoInstance)
        /\ UNCHANGED <<model_cls, notMm>>

\* ModelManager.update(instance, commit, **kwargs)
update ==
    \E i \in DOMAIN instances, commit \in BOOLEAN, kwargs \in KwargsSets :
        /\ instances' = [instances EXCEPT ![i] = SetAttrs(@, kwargs)]
        /\ save(i, commit, i \notin mm_committed \/ instances'[i] # instances[i])
        /\ mm_ret' = Ret("update", commit, kwargs, i, FALSE, NoInstance)
        /\ UNCHANGED <<model_cls, notMm>>

\* ModelManager.get_or_create(commit, **kwargs)
get_or_create ==
    \E commit \in BOOLEAN, kwargs \in KwargsSets : \E instance \in get_by(kwargs) :
        /\ IF ~InstanceTruthy(instance)
           THEN /\ create_body(commit, kwargs)
                /\ mm_ret' = Ret("get_or_create", commit, kwargs,
                                 Len(instances) + 1, TRUE, instance)
           ELSE /\ mm_ret' = Ret("get_or_create", commit, kwargs,
                                 instance, FALSE, instance)
                /\ UNCHANGED <<instances, mm_session, mm_committed, mm_dirty>>
        /\ UNCHANGED <<model_cls, notMm>>

----------------------------------------------------------------------------
(* utils.deep_getattr *)

\* the longest tuple of base classes passed to deep_getattr
MaxBases == 2

\* The classes that exist when deep_getattr is called: B and C both derive
\* from A (every class derives from object, which defines none of the names
\* looked up here).
Classes == {"A", "B", "C"}

ClassBases(c) == IF c = "A" THEN <<>> ELSE <<"A">>

\* the attribute names looked up
AttrNames == {"x", "y"}

\* a class dictionary: the names it defines and their values
ClassDicts == {<<>>} \cup [{"x"} -> {"v1", "v2"}]

\* the class dictionary of the class under construction
NewClassDicts == {<<>>} \cup [{"x"} -> {"v3"}]

\* `default`: the sentinel _missing when the argument is not given
DgDefaults == {"_missing", "None", "d"}

Range(s) == {s[i] : i \in 1..Len(s)}

Tail1(s) == SubSeq(s, 2, Len(s))

\* the sequences of distinct classes of length at most n
RECURSIVE TuplesUpTo(_)
TuplesUpTo(n) ==
    IF n = 0 THEN {<<>>}
    ELSE TuplesUpTo(n - 1) \cup
         {Append(t, c) : t \in {u \in TuplesUpTo(n - 1) : Len(u) = n - 1},
                         c \in Classes}

RECURSIVE Merge(_)
\* The merge step of the C3 linearisation (type.mro): repeatedly take the first
\* head that is in no other list's tail.  The result ends with "TypeError"
\* when no head qualifies (an inconsistent hierarchy).
Merge(seqs) ==
    LET live == SelectSeq(seqs, LAMBDA s : Len(s) > 0)
        good(h) == \A i \in 1..Len(live) : h \notin Range(Tail1(live[i]))
        cands == {i \in 1..Len(live) : good(live[i][1])}
    IN  IF Len(live) = 0 THEN <<>>
        ELSE IF cands = {} THEN <<"TypeError">>
        ELSE LET k == CHOOSE i \in cands : \A j \in cands : i <= j
                 h == live[k][1]
                 rest == [i \in 1..Len(live) |->
                            IF live[i][1] = h THEN Tail1(live[i]) ELSE live[i]]
             IN  <<h>> \o Merge(rest)

RECURSIVE Mro(_)
\* cls.__mro__ of an existing class, without object
Mro(c) ==
    LET bs == ClassBases(c)
    IN  <<c>> \o Merge([i \in 1..Len(bs) |-> Mro(bs[i])] \o <<bs>>)

\* the __mro__, after the class itself, of type(n, bases, clsdict)
MroOfBases(bases) == Merge([i \in 1..Len(bases) |-> Mro(bases[i])] \o <<bases>>)

\* whether type(n, bases, clsdict) constructs a class: no duplicate base, and a
\* consistent method resolution order
ValidBases(bases) ==
    /\ \A i, j \in 1..Len(bases) : i # j => bases[i] # bases[j]
    /\ "TypeError" \notin Range(MroOfBases(bases))

RECURSIVE LookupAlong(_, _)
\* the value of `name` in the first class of the order that defines it
LookupAlong(order, name) ==
    IF Len(order) = 0 THEN "_missing"
    ELSE IF name \in DOMAIN class_dicts[order[1]] THEN class_dicts[order[1]][name]
    ELSE LookupAlong(Tail1(order), name)

\* getattr(base, name, _missing) on an existing class
getattr_base(base, name) == LookupAlong(Mro(base), name)

RECURSIVE FirstBaseValue(_, _)
\* lines 137-140: the first base for which getattr finds a value
FirstBaseValue(bases, name) ==
    IF Len(bases) = 0 THEN "_missing"
    ELSE IF getattr_base(bases[1], name) # "_missing" THEN getattr_base(bases[1], name)
    ELSE FirstBaseValue(Tail1(bases), name)

\* deep_getattr(clsdict, bases, name, default): the value returned, or
\* "AttributeError" raised
deep_getattr(clsdict, bases, name, default) ==
    LET value == IF name \in DOMAIN clsdict THEN clsdict[name] ELSE "_missing"
    IN  IF value # "_missing" THEN [value |-> value, raised |-> ""]
        ELSE IF FirstBaseValue(bases, name) # "_missing"
             THEN [value |-> FirstBaseValue(bases, name), raised |-> ""]
        ELSE IF default # "_missing" THEN [value |-> default, raised |-> ""]
        ELSE [value |-> "_missing", raised |-> "AttributeError"]

DgIdle ==
    /\ class_dicts = [c \in Classes |-> <<>>] /\ dg_clsdict = <<>> /\ dg_bases = <<>>
    /\ dg_name = "x" /\ dg_default = "_missing" /\ dg_pc = "idle"
    /\ dg_result = [value |-> "_missing", raised |-> ""]

DgInit ==
    /\ class_dicts \in [Classes -> ClassDicts]
    /\ dg_clsdict \in NewClassDicts
    /\ dg_bases \in TuplesUpTo(MaxBases)
    /\ dg_name \in AttrNames
    /\ dg_default \in DgDefaults
    /\ dg_pc = "call"
    /\ dg_result = [value |-> "_missing", raised |-> ""]

CallDeepGetattr ==
    /\ dg_pc = "call"
    /\ dg_result' = deep_getattr(dg_clsdict, dg_bases, dg_name, dg_default)
    /\ dg_pc' = "done"
    /\ UNCHANGED <<class_dicts, dg_clsdict, dg_bases, dg_name, dg_default, notDg>>

----------------------------------------------------------------------------
(* utils.safe_import_module *)

M_x == <<"x">>
M_xy == <<"x", "y">>
M_x_y == <<"x", ".", "y">>
M_name == <<"n", "a", "m", "e">>

\* the module names of the run: x, xy, the submodule x.y, and name
ModuleNames == {M_x, M_xy, M_x_y, M_name}

\* `no module`: a module without an import statement imports this
NoModule == <<>>

\* the package a dotted name is a submodule of, NoModule for a top-level name
Parent(name) == IF name = M_x_y THEN M_x ELSE NoModule

\* str(e) of the ModuleNotFoundError the import system raises
ErrorText(missing) ==
    <<"N", "o", " ", "m", "o", "d", "u", "l", "e", " ",
      "n", "a", "m", "e", "d", " ", "'">> \o missing \o <<"'">>

RECURSIVE ImportFailure(_, _)
\* import_module(name): the name of the module whose absence makes the import
\* raise, NoModule when the import succeeds.  The parent package is imported
\* first; a module that exists is executed, which runs its own import; a
\* module being imported already (`loading`) is taken from sys.modules.
ImportFailure(name, loading) ==
    IF name \in loading THEN NoModule
    ELSE LET up == IF Parent(name) = NoModule THEN NoModule
                   ELSE ImportFailure(Parent(name), loading)
         IN  IF up # NoModule THEN up
             ELSE IF name \notin im_exists THEN name
             ELSE IF im_imports[name] = NoModule THEN NoModule
             ELSE ImportFailure(im_imports[name], loading \cup {name})

\* safe_import_module(module_name): "module" for the module returned, "None",
\* or "ImportError" for the exception raised again
safe_import_module(module_name) ==
    LET missing == ImportFailure(module_name, {})
    IN  IF missing = NoModule THEN "module"
        ELSE IF ~IsSubstring(module_name, ErrorText(missing)) THEN "ImportError"
        ELSE "None"

ImIdle ==
    /\ im_exists = {} /\ im_imports = [m \in ModuleNames |-> NoModule]
    /\ im_module_name = M_x /\ im_pc = "idle" /\ im_result = ""

\* any set of installed modules, each importing at most one other module
ImInit ==
    /\ im_exists \in SUBSET ModuleNames
    /\ im_imports \in [ModuleNames -> ModuleNames \cup {NoModule}]
    /\ \A m \in ModuleNames : m \notin im_exists => im_imports[m] = NoModule
    /\ \A m \in ModuleNames : im_imports[m] # m
    /\ im_module_name \in ModuleNames
    /\ im_pc = "call" /\ im_result = ""

CallSafeImportModule ==
    /\ im_pc = "call"
    /\ im_result' = safe_import_module(im_module_name)
    /\ im_pc' = "done"
    /\ UNCHANGED <<im_exists, im_imports, im_module_name, notIm>>

----------------------------------------------------------------------------
(* utils.ConfigProperty, utils.ConfigPropertyMeta *)

\* the most classes a run creates with ConfigPropertyMeta
MaxClasses == 2

\* the ConfigProperty objects of the run
Descriptors == {1, 2}

\* ConfigProperty(key=None): the key None
NoneKey == <<"None">>

\* the keys a ConfigProperty is declared with: none, the empty string, 'K'
DeclaredKeys == {NoneKey, <<>>, <<"K">>}

\* class names
ClassNames == {<<"e", "x", "t">>, <<"e", "x", "t", "_">>}

\* a class dictionary without a '__config_prefix__' item
Unspecified == <<"unspecified">>

\* the values of '__config_prefix__'
ConfigPrefixes == {Unspecified, <<"p">>, <<"P", "_", "_">>}

\* property names
PropertyNames == {<<"f">>, <<"_", "c">>}

\* The ConfigProperty items of a class dictionary, in the dictionary's order:
\* <<property name, descriptor>> pairs, each name at most once.
ClassProps ==
    {<<>>}
    \cup {<<<<n, d>>>> : n \in PropertyNames, d \in Descriptors}
    \cup {p \in {<<<<n1, d1>>, <<n2, d2>>>> :
                    n1 \in PropertyNames, n2 \in PropertyNames,
                    d1 \in Descriptors, d2 \in Descriptors} : p[1][1] # p[2][1]}

\* current_app.config: the keys set and their values
Configs ==
    { <<>>,
      [k \in {<<"K">>} |-> "v1"],
      [k \in {<<"K">>, <<"E", "X", "T", "_", "F">>, <<"P", "_", "F">>} |-> "v2"] }

\* `not descriptor.key`: None and the empty string are falsy
FalsyKey(key) == key = NoneKey \/ key = <<>>

\* faulty variant: the prefix keeps its trailing underscores
ConfigPrefix_norstrip(class_name, prefix) ==
    IF prefix = Unspecified THEN class_name ELSE prefix

\* line 72: clsdict.get('__config_prefix__', class_name).rstrip('_')
ConfigPrefix(class_name, prefix) ==
    rstrip(IF prefix = Unspecified THEN class_name ELSE prefix, "_")

\* line 75: f'{config_prefix}_{property_name}'.upper()
InjectedKey(config_prefix, property_name) ==
    upper(config_prefix \o <<"_">> \o property_name)

RECURSIVE InjectKeys(_, _, _)
\* lines 73-75: the loop over the items of the class dictionary
InjectKeys(keys, config_prefix, props) ==
    IF Len(props) = 0 THEN keys
    ELSE LET property_name == props[1][1]
             descriptor == props[1][2]
             injected ==
                IF FalsyKey(keys[descriptor])
                THEN [keys EXCEPT ![descriptor] =
                            InjectedKey(config_prefix, property_name)]
                ELSE keys
         IN  InjectKeys(injected, config_prefix, SubSeq(props, 2, Len(props)))

\* current_app.config.get(key)
config_get(key) == IF key \in DOMAIN cp_config THEN cp_config[key] ELSE "None"

NoClass == [class_name |-> <<>>, prefix |-> Unspecified, props |-> <<>>]

CpIdle ==
    /\ cp_key = [d \in Descriptors |-> NoneKey] /\ cp_declared = cp_key
    /\ cp_config = <<>> /\ cp_n = 0 /\ cp_class = NoClass /\ cp_key_before = cp_key
    /\ cp_read = [descriptor |-> 0, value |-> "None"]

\* the ConfigProperty objects as their constructor left them, no class yet
CpInit ==
    /\ \/ cp_key = [d \in Descriptors |-> NoneKey]
       \/ cp_key \in [Descriptors -> DeclaredKeys] \ {[d \in Descriptors |-> NoneKey]}
    /\ cp_declared = cp_key
    /\ cp_config \in Configs
    /\ cp_n = 0 /\ cp_class = NoClass /\ cp_key_before = cp_key
    /\ cp_read = [descriptor |-> 0, value |-> "None"]

\* ConfigPropertyMeta.__init__(cls, class_name, bases, clsdict)
ConfigPropertyMeta__init__ ==
    \E class_name \in ClassNames, prefix \in ConfigPrefixes, props \in ClassProps :
        /\ cp_n < MaxClasses
        /\ cp_key' = InjectKeys(cp_key, ConfigPrefix(class_name, prefix), props)
        /\ cp_class' = [class_name |-> class_name, prefix |-> prefix, props |-> props]
        /\ cp_key_before' = cp_key
        /\ cp_n' = cp_n + 1
        /\ cp_read' = [descriptor |-> 0, value |-> "None"]
        /\ UNCHANGED <<cp_declared, cp_config, notCp>>

\* ConfigProperty.__get__(instance, cls): a read of a property of the class
\* created last
ConfigProperty__get__ ==
    \E i \in 1..Len(cp_class.props) :
        LET descriptor == cp_class.props[i][2]
        IN  /\ cp_read' = [descriptor |-> descriptor, value |-> config_get(cp_key[descriptor])]
            /\ UNCHANGED <<cp_key, cp_declared, cp_config, cp_n, cp_class,
                           cp_key_before, notCp>>

----------------------------------------------------------------------------
(* utils.OptionalMetaclass, utils.OptionalClass *)

\* the most operations on OptionalClass a run performs
MaxOps == 5

\* Python's None as the value of OptionalMetaclass.__optional_class
NoClassYet == "None"

\* the names of the class statements: line 107's and two of the application
StatementNames == {"OptionalClass", "MySerializer", "MyField"}

\* The other base of a class statement besides OptionalClass: none, or a plain
\* class (its metaclass is type).
OtherBases == {"none", "plain"}

\* the attribute names read and written
OptAttrNames ==
    {"ModelSerializer", "Meta", "__init__", "__name__",
     "_OptionalMetaclass__optional_class"}

\* the items read and written
OptItems == {"k1", "k2"}

\* the values written
OptValues == {"1", "2"}

\* the names the body of line 107's class statement puts in the class __dict__
OptionalClassBody == {"__module__", "__qualname__", "__doc__", "__init__"}

\* the result of an operation: a class object, another object, or nothing
ClassObject(name) == [kind |-> "class", name |-> name]
OtherObject(name) == [kind |-> "object", name |-> name]
Nothing == [kind |-> "none", name |-> ""]

\* self.__optional_class, read through the class: the metaclass's attribute
optional_class == ClassObject(opt_optional_class)

\* Ordinary attribute lookup on the class (type.__getattribute__), which runs
\* before __getattr__: the class __dict__, the attributes every class has from
\* type, and the metaclass's own attribute.  Nothing when the name is not found.
NormalLookup(name) ==
    IF name \in opt_dict THEN OtherObject(name)
    ELSE IF name = "__name__" THEN OtherObject(name)
    ELSE IF name = "_OptionalMetaclass__optional_class" THEN optional_class
    ELSE Nothing

OptLast(op, arg, value, result, exc) ==
    [op |-> op, arg |-> arg, value |-> value, result |-> result, raised |-> exc]

OptIdle ==
    /\ opt_optional_class = NoClassYet /\ opt_dict = {} /\ opt_items = {}
    /\ opt_n = 0 /\ opt_last = OptLast("idle", "", "", Nothing, "")

\* utils.py executed up to line 106: the metaclass exists, no class of it yet
OptInit ==
    /\ opt_optional_class = NoClassYet /\ opt_dict = {} /\ opt_items = {}
    /\ opt_n = 0 /\ opt_last = OptLast("none", "", "", Nothing, "")

OptFrame == <<notOpt>>

\* A class statement whose metaclass is OptionalMetaclass: line 107's, then
\* the application's `class name(OptionalClass, other): ...`.
\* OptionalMetaclass.__new__ (lines 86-89) builds a class only while
\* __optional_class is None.  A body that refers to __class__ or super() has
\* a __classcell__ that type.__new__ alone fills: left empty, the statement
\* raises RuntimeError from Python 3.8 on and only warns on 3.6 and 3.7.
class_statement ==
    \E name \in StatementNames, other \in OtherBases, uses_super \in BOOLEAN :
        /\ opt_n < MaxOps
        /\ opt_n' = opt_n + 1
        /\ opt_optional_class = NoClassYet =>
              (name = "OptionalClass" /\ other = "none" /\ ~uses_super)
        /\ opt_optional_class # NoClassYet => name # "OptionalClass"
        /\ IF opt_optional_class = NoClassYet
           THEN /\ opt_optional_class' = name
                /\ opt_dict' = OptionalClassBody
                /\ opt_last' = OptLast("class", name, "", ClassObject(name), "")
           ELSE /\ UNCHANGED <<opt_optional_class, opt_dict>>
                /\ IF uses_super
                   THEN \/ opt_last' = OptLast("class", name, "", Nothing, "RuntimeError")
                        \/ opt_last' = OptLast("class", name, "", optional_class, "")
                   ELSE opt_last' = OptLast("class", name, "", optional_class, "")
        /\ UNCHANGED <<opt_items, OptFrame>>

\* A class statement with OptionalClass and a class that has a metaclass of
\* its own (such as abc.ABC) as bases: neither metaclass derives from the
\* other, so the statement raises TypeError before any __new__ is called.
class_statement_metaclass_conflict ==
    \E name \in StatementNames \ {"OptionalClass"} :
        /\ opt_optional_class # NoClassYet /\ opt_n < MaxOps
        /\ opt_n' = opt_n + 1
        /\ opt_last' = OptLast("class", name, "", Nothing, "TypeError")
        /\ UNCHANGED <<opt_optional_class, opt_dict, opt_items, OptFrame>>

\* an attribute read OptionalClass.item: __getattr__ (lines 91-92) is called
\* only when the ordinary lookup finds nothing
OptionalMetaclass__getattr__ ==
    \E item \in OptAttrNames :
        /\ opt_optional_class # NoClassYet /\ opt_n < MaxOps
        /\ opt_n' = opt_n + 1
        /\ opt_last' = OptLast("getattr", item, "",
                               IF NormalLookup(item) # Nothing THEN NormalLookup(item)
                               ELSE optional_class, "")
        /\ UNCHANGED <<opt_optional_class, opt_dict, opt_items, OptFrame>>

\* lines 94-95: an attribute write OptionalClass.key = value
OptionalMetaclass__setattr__ ==
    \E key \in OptAttrNames, value \in OptValues :
        /\ opt_optional_class # NoClassYet /\ opt_n < MaxOps
        /\ opt_n' = opt_n + 1
        /\ opt_last' = OptLast("setattr", key, value, Nothing, "")
        /\ UNCHANGED <<opt_optional_class, opt_dict, opt_items, OptFrame>>

\* lines 97-98: a call OptionalClass(*args, **kwargs)
OptionalMetaclass__call__ ==
    /\ opt_optional_class # NoClassYet /\ opt_n < MaxOps
    /\ opt_n' = opt_n + 1
    /\ opt_last' = OptLast("call", "", "", optional_class, "")
    /\ UNCHANGED <<opt_optional_class, opt_dict, opt_items, OptFrame>>

\* lines 100-101: an item read OptionalClass[item]
OptionalMetaclass__getitem__ ==
    \E item \in OptItems :
        /\ opt_optional_class # NoClassYet /\ opt_n < MaxOps
        /\ opt_n' = opt_n + 1
        /\ opt_last' = OptLast("getitem", item, "", optional_class, "")
        /\ UNCHANGED <<opt_optional_class, opt_dict, opt_items, OptFrame>>

\* lines 103-104: an item write OptionalClass[key] = value
OptionalMetaclass__setitem__ ==
    \E key \in OptItems, value \in OptValues :
        /\ opt_optional_class # NoClassYet /\ opt_n < MaxOps
        /\ opt_n' = opt_n + 1
        /\ opt_last' = OptLast("setitem", key, value, Nothing, "")
        /\ UNCHANGED <<opt_optional_class, opt_dict, opt_items, OptFrame>>

----------------------------------------------------------------------------
(* Specifications *)

vars == <<envVars, cliVars, mmVars, dgVars, imVars, cpVars, optVars>>

\* utils.get_boolean_env applied to every environment and default
InitEnv == EnvInit /\ CliIdle /\ MmIdle /\ DgIdle /\ ImIdle /\ CpIdle /\ OptIdle
NextEnv == CallGetBooleanEnv
SpecEnv == InitEnv /\ [][NextEnv]_vars

\* one run of a `flask db` command
InitCli == CliInit /\ EnvIdle /\ MmIdle /\ DgIdle /\ ImIdle /\ CpIdle /\ OptIdle
NextCli == drop_command \/ drop_all \/ reset_command \/ import_fixtures
SpecCli == InitCli /\ [][NextCli]_vars

\* calls of a ModelManager's methods, in any order
InitMm == MmInit /\ EnvIdle /\ CliIdle /\ DgIdle /\ ImIdle /\ CpIdle /\ OptIdle
NextMm == create \/ update \/ get_or_create
SpecMm == InitMm /\ [][NextMm]_vars

\* utils.deep_getattr applied to every class dictionary, bases, name and default
InitDg == DgInit /\ EnvIdle /\ CliIdle /\ MmIdle /\ ImIdle /\ CpIdle /\ OptIdle
NextDg == CallDeepGetattr
SpecDg == InitDg /\ [][NextDg]_vars

\* utils.safe_import_module applied to every set of installed modules
InitIm == ImInit /\ EnvIdle /\ CliIdle /\ MmIdle /\ DgIdle /\ CpIdle /\ OptIdle
NextIm == CallSafeImportModule
SpecIm == InitIm /\ [][NextIm]_vars

\* classes created with ConfigPropertyMeta and reads of their properties
InitCp == CpInit /\ EnvIdle /\ CliIdle /\ MmIdle /\ DgIdle /\ ImIdle /\ OptIdle
NextCp == ConfigPropertyMeta__init__ \/ ConfigProperty__get__
SpecCp == InitCp /\ [][NextCp]_vars

\* line 107's class statement, then any uses of OptionalClass
InitOpt == OptInit /\ EnvIdle /\ CliIdle /\ MmIdle /\ DgIdle /\ ImIdle /\ CpIdle
NextOpt ==
    \/ class_statement
    \/ OptionalMetaclass__getattr__
    \/ OptionalMetaclass__setattr__
    \/ OptionalMetaclass__call__
    \/ OptionalMetaclass__getitem__
    \/ OptionalMetaclass__setitem__
    \/ class_statement_metaclass_conflict
SpecOpt == InitOpt /\ [][NextOpt]_vars
----------------------------------------------------------------------------
(* Claims *)

L_Dropping == Line("Dropping DB tables.", "")
L_Running == Line("Running DB migrations.", "")
L_Done == Line("Done.", "")
L_Finished == Line("Finished adding fixtures", "")

IsPrefix(s, t) == Len(s) <= Len(t) /\ SubSeq(t, 1, Len(s)) = s

\* C1: a confirmed 'db reset' echoes 'Dropping DB tables.', drops every model
\* table and the alembic_version table, echoes 'Running DB migrations.', runs
\* the upgrade to head and echoes 'Done.', in that order: the upgrade starts
\* with every table dropped, and 'Done.' is echoed only after the upgrade ran.
C1_ResetOrder ==
    (cmd = "reset" /\ flag) =>
        /\ IsPrefix(out, <<L_Dropping, L_Running, L_Done>>)
        /\ pc = "drop_all" => out = <<L_Dropping>> /\ tables = tables0
        /\ pc = "drop_alembic_version" => out = <<L_Dropping>> /\ tables = {}
        /\ pc = "after_drop_all" =>
              out = <<L_Dropping>> /\ tables = {} /\ ~alembic_version
        /\ pc = "upgrade" =>
              out = <<L_Dropping, L_Running>> /\ tables = {} /\ ~alembic_version
        /\ pc = "after_upgrade" =>
              /\ out = <<L_Dropping, L_Running>>
              /\ tables = migrations /\ alembic_version
        /\ L_Done \in {out[i] : i \in 1..Len(out)} =>
              /\ pc = "done" /\ out = <<L_Dropping, L_Running, L_Done>>
              /\ tables = migrations /\ alembic_version
        /\ pc = "done" => out = <<L_Dropping, L_Running, L_Done>>

\* a reset of a populated database that ran to its end
C1_Witness ==
    /\ cmd = "reset" /\ pc = "done" /\ tables0 = ModelTables /\ alembic0
    /\ migrations = {"user"} /\ tables = {"user"} /\ Len(out) = 3

\* C2: 'db drop' and 'db reset' with a false confirmation flag exit with
\* 'Cancelled.' and leave the database as it was: nothing is dropped, nothing
\* is migrated, nothing is echoed.
C2_CancelLeavesDatabase ==
    /\ (cmd \in {"drop", "reset"} /\ ~flag) =>
          /\ pc \in {"start", "exited"}
          /\ pc = "exited" => exit_msg = "Cancelled."
          /\ tables = tables0 /\ alembic_version = alembic0
          /\ out = <<>> /\ raised = ""
    /\ exit_msg # "" => (cmd \in {"drop", "reset"} /\ ~flag /\ exit_msg = "Cancelled.")

\* a cancelled reset of a populated database
C2_Witness ==
    /\ cmd = "reset" /\ ~flag /\ pc = "exited" /\ exit_msg = "Cancelled."
    /\ tables = ModelTables /\ alembic_version /\ migrations = {"user"}

\* the 'Created' lines of the output, in order
CreatedLines == SelectSeq(out, LAMBDA l : l.msg = "Created")

\* C10: 'db import-fixtures' raises NotADirectoryError when
\* PY_YAML_FIXTURES_DIR is unset, empty or names a path that does not exist,
\* before the loader is built and with the session unchanged; fixtures are
\* created only when the directory exists, each is reported with a 'Created'
\* line, and 'Finished adding fixtures' follows them.
C10_ImportFixtures ==
    cmd = "import-fixtures" =>
        /\ ((FalsyDir(fixtures_dir) \/ ~exists(fixtures_dir)) /\ pc # "start") =>
              /\ pc = "raised" /\ raised = "NotADirectoryError"
              /\ ~loader_built /\ session = session0 /\ created = <<>> /\ out = <<>>
        /\ (session # session0 \/ created # <<>> \/ CreatedLines # <<>>) =>
              PathKind(fixtures_dir) = "dir"
        /\ IsPrefix(CreatedLines, [i \in 1..Len(created) |-> Line("Created", created[i])])
        /\ pc = "done" =>
              /\ out = <<Line("Loading fixtures from", fixtures_dir)>>
                          \o [i \in 1..Len(created) |-> Line("Created", created[i])]
                          \o <<L_Finished>>
              /\ session = session0 \cup {created[i] : i \in 1..Len(created)}
              /\ loader_built
        /\ L_Finished \in {out[i] : i \in 1..Len(out)} => pc = "done"

\* the error case: a configured path that does not exist
C10_Witness ==
    /\ cmd = "import-fixtures" /\ fixtures_dir = "/nowhere" /\ pc = "raised"
    /\ raised = "NotADirectoryError" /\ session = {"User.z"}
    /\ fixture_ids = <<"User.a", "Role.b">>

\* C9: get_boolean_env returns True exactly when the variable's value,
\* lowercased, is 'true', 'yes', 'y' or '1', False for every other value (the
\* empty string too), and the truthiness of default when the variable is unset.
C9_GetBooleanEnv ==
    env_pc = "done" =>
        IF env_name \in DOMAIN environ
        THEN env_result = (lower(environ[env_name]) \in {S_true, S_yes, S_y, S_1})
        ELSE env_result = Truthy(env_default)

\* an upper-case value with a falsy default
C9_Witness ==
    /\ env_pc = "done" /\ env_name = "FLASK_DEBUG" /\ env_name \in DOMAIN environ
    /\ environ[env_name] = <<"Y", "E", "S">> /\ env_default = "None"
    /\ env_result = TRUE

\* C3: get_or_create returns (instance, created): when get_by finds an
\* instance, that instance is returned with False and nothing is created;
\* otherwise a new instance initialised with exactly kwargs is returned with
\* True.
C3_GetOrCreate ==
    mm_ret.op = "get_or_create" =>
        IF mm_ret.found # NoInstance
        THEN ~mm_ret.created /\ mm_ret.instance = mm_ret.found
        ELSE /\ mm_ret.created
             /\ mm_ret.instance = Len(instances)
             /\ instances[mm_ret.instance] = NewModel(mm_ret.kwargs)

\* what a step that was a call of create or update has done
C4_Step ==
    LET r == mm_ret'
        i == r.instance
    IN  r.op \in {"create", "update"} =>
            /\ i \in mm_session'
            /\ r.commit => (mm_committed' = mm_session' /\ mm_dirty' = {})
            /\ ~r.commit =>
                  /\ mm_committed' = mm_committed
                  /\ mm_dirty \subseteq mm_dirty'
                  /\ (i \notin mm_committed \/ instances'[i] # instances[i])
                        => i \in mm_dirty'
            /\ r.op = "create" =>
                  /\ instances' = Append(instances, NewModel(r.kwargs))
                  /\ i = Len(instances')
            /\ r.op = "update" =>
                  /\ i \in DOMAIN instances
                  /\ DOMAIN instances' = DOMAIN instances
                  /\ \A j \in DOMAIN instances : j # i => instances'[j] = instances[j]
                  /\ \A a \in Attrs :
                        instances'[i][a] =
                            IF a \in DOMAIN r.kwargs THEN r.kwargs[a] ELSE instances[i][a]

\* C4: create and update always add the instance to the session and commit
\* the session exactly when commit is true (with commit false the instance is
\* in the session with its state uncommitted); create returns a new instance
\* initialised with kwargs, update sets the attributes kwargs names, no
\* others, on the given instance and returns it.
C4_CreateUpdateSave == [][C4_Step]_vars

\* an update without commit of a committed instance, after a create with commit
C4_Witness ==
    /\ mm_ret.op = "update" /\ ~mm_ret.commit /\ mm_ret.instance = 2
    /\ DOMAIN mm_ret.kwargs = {"active"}
    /\ mm_committed = {1, 2} /\ mm_dirty = {2}
    /\ instances[1] = [name |-> "None", active |-> "1"]
    /\ instances[2] = [name |-> "1", active |-> "1"]

\* getattr(type(n, bases, clsdict), name, default) on the constructed class:
\* the class dictionary first, then the bases in method resolution order
GetattrOnConstructedClass(clsdict, bases, name, default) ==
    LET own == IF name \in DOMAIN clsdict THEN clsdict[name] ELSE "_missing"
        inherited == LookupAlong(MroOfBases(bases), name)
    IN  IF own # "_missing" THEN [value |-> own, raised |-> ""]
        ELSE IF inherited # "_missing" THEN [value |-> inherited, raised |-> ""]
        ELSE IF default # "_missing" THEN [value |-> default, raised |-> ""]
        ELSE [value |-> "_missing", raised |-> "AttributeError"]

\* C5: deep_getattr acts just like getattr on the constructed class: the class
\* dictionary's value, else the value found in the bases in method resolution
\* order (diamonds included), else the default when one is given (None
\* included), else AttributeError.
C5_DeepGetattrIsGetattr ==
    (dg_pc = "done" /\ ValidBases(dg_bases)) =>
        dg_result = GetattrOnConstructedClass(dg_clsdict, dg_bases, dg_name, dg_default)

\* C8: safe_import_module returns the module when the import succeeds, None
\* when the requested module itself does not exist, and raises the ImportError
\* again whenever a different module (one imported from inside the requested
\* module) is the missing one, also when the requested name is a substring of
\* the missing module's name.
C8_SafeImportModule ==
    im_pc = "done" =>
        LET missing == ImportFailure(im_module_name, {})
        IN  im_result = IF missing = NoModule THEN "module"
                        ELSE IF missing = im_module_name THEN "None"
                        ELSE "ImportError"

\* the properties of the class created last, and what reading one returned
C6_ReadReturnsConfigValue ==
    cp_read.descriptor # 0 => cp_read.value = config_get(cp_key[cp_read.descriptor])

FirstNameOf(d, props) ==
    LET at == {i \in 1..Len(props) : props[i][2] = d}
    IN  IF at = {} THEN <<>>
        ELSE props[CHOOSE i \in at : \A j \in at : i <= j][1]

C7_OptionalClassAbsorbs ==
    opt_optional_class # NoClassYet =>
        /\ opt_optional_class = "OptionalClass"
        /\ opt_last.raised = ""
        /\ opt_last.op \in {"getattr", "call", "getitem", "class"} =>
              opt_last.result = ClassObject("OptionalClass")
        /\ opt_dict = OptionalClassBody /\ opt_items = {}

====
